---------------------------- MODULE Spec2Model ----------------------------
(***************************************************************************)
(* Model of the sockperf benchmark scripts of ec2-ena-express-lab.         *)
(*                                                                         *)
(*   Spec    the UDP benchmark script (src/unnamed/part_002), with and     *)
(*           without --debug: CSV header creation, probe gate, trial loop  *)
(*           with two background run_sockperf jobs per trial (a job may    *)
(*           exit 0, exit non-zero or never exit), extract_metrics,        *)
(*           per-trial improvement, comparison.csv and the summary report. *)
(*   FnSpec  the pure computations applied to inputs drawn from bounded    *)
(*           sets: extract_metrics on a raw text, the awk improvement of   *)
(*           part_002 and the bc improvements of part_001.                 *)
(*                                                                         *)
(* Numbers.  A shell string that holds a number is [kind |-> "num", val].  *)
(* A latency val counts 10^-5 microseconds, an improvement val counts      *)
(* hundredths of a percent (the two decimals printf "%.2f" prints).  The   *)
(* literal N/A is NA, the empty string is EMPTY.                           *)
(***************************************************************************)
EXTENDS Integers, Naturals, Sequences, FiniteSets, TLC

VARIABLES
    DEBUG,        \* configuration: whether --debug was given (lines 4-15)
    headers,      \* CSV files created so far: name -> header line
    ITERATIONS,   \* configuration: number of iterations (line 32)
    REPEAT,       \* configuration: repeats per iteration (line 33)
    pc,           \* position of the control thread of the script
    i,            \* outer loop counter
    j,            \* inner loop counter
    exitCode,     \* exit status of the script, -1 while it runs
    probe,        \* per role: verdict of check_sockperf_server
    ping,         \* per role: outcome of the diagnostic ping
    probeCount,   \* per role: number of probes performed
    job,          \* per role: the background run_sockperf job
    launched,     \* number of benchmark executions started so far
    files,        \* raw log files: path <<role, i, j>> -> lines
    summary,      \* per role: data rows of <role>_summary.csv
    comparison,   \* data rows of comparison.csv
    trialExit,    \* per comparison row: exit status of the two runs
    metrics,      \* per role: ENI_UDP_* resp. SRD_UDP_* shell variables
    imp,          \* UDP_*_IMPROVEMENT shell variables
    cooldowns,    \* the sleeps performed so far, in order
    report,       \* summary_report.txt
    fnPc,         \* FnSpec: which function has been applied
    fnFile,       \* FnSpec: raw output file handed to extract_metrics
    fnB,          \* FnSpec: baseline operand
    fnE,          \* FnSpec: enhanced operand
    fnRec,        \* FnSpec: metric record returned by extract_metrics
    fnRec2,       \* FnSpec: record returned by a second application
    fnImp         \* FnSpec: improvement computed

vars == <<DEBUG, headers, ITERATIONS, REPEAT, pc, i, j, exitCode, probe,
          ping, probeCount, job, launched, files, summary, comparison,
          trialExit, metrics, imp, cooldowns, report, fnPc, fnFile, fnB,
          fnE, fnRec, fnRec2, fnImp>>

mainVars == <<DEBUG, headers, ITERATIONS, REPEAT, pc, i, j, exitCode, probe, ping,
              probeCount, job, launched, files, summary, comparison,
              trialExit, metrics, imp, cooldowns, report>>

fnVars == <<fnPc, fnFile, fnB, fnE, fnRec, fnRec2, fnImp>>

-----------------------------------------------------------------------------
(* Bounds of the model *)

MaxIterations == 2
MaxRepeat == 2
MaxTrials == 2
MaxLines == 2
MaxOperand == 6

Roles == {"ENI", "SRD"}
Fields == {"avg", "p50", "p99", "max"}

-----------------------------------------------------------------------------
(* Shell string values *)

NA == [kind |-> "NA", val |-> 0]
EMPTY == [kind |-> "EMPTY", val |-> 0]
Num(n) == [kind |-> "num", val |-> n]
IsNum(x) == x.kind = "num"

\* A value captured with --debug: the DEBUG: lines extract_metrics echoed
\* on its standard output, then the value itself on the last line.
Polluted(x) == [kind |-> "DEBUG", val |-> x.val]

\* What an awk program leaves when it divides by zero: nothing (gawk stops
\* with a fatal error) or nan (mawk).  In neither case a number or N/A.
AWKERR == [kind |-> "awkerr", val |-> 0]

Abs(n) == IF n < 0 THEN 0 - n ELSE n

\* One microsecond in latency units.
Usec(n) == n * 100000


-----------------------------------------------------------------------------
(* Raw tool output.  A text is a sequence of lines; a line is the marker   *)
(* it carries and the number printed after the marker.  A regular          *)
(* expression of the scripts is the set of markers whose lines it matches. *)
(* Texts hold at most one line per marker, as sockperf prints them.        *)

Line(k, v) == [k |-> k, v |-> v]

\* grep -oP patterns of extract_metrics for the average latency, in order.
AvgPatterns ==
    << {"avg-lat="},
       {"Summary: Latency is "},
       {"Average latency: "},
       {"avg latency: "},
       {"latency average: "},
       {"latency average: "},
       {"average = "} >>

\* awk patterns of extract_metrics for the median, in order.
P50Patterns ==
    << {"percentile 50.000 ="},
       {"percentile 50.00 ="},
       {"percentile 50.0 ="},
       {"percentile 50 ="} >>

\* awk patterns of extract_metrics for the 99th percentile, in order.
P99Patterns ==
    << {"percentile 99.000 ="},
       {"percentile 99.00 ="},
       {"percentile 99.0 ="},
       {"percentile 99 ="} >>

\* awk pattern of extract_metrics for the maximum.
MaxPatterns == << {"<MAX> observation ="} >>

PatternsOf(f) ==
    CASE f = "avg" -> AvgPatterns
      [] f = "p50" -> P50Patterns
      [] f = "p99" -> P99Patterns
      [] f = "max" -> MaxPatterns

Matching(pat, lines) == {n \in 1..Len(lines) : lines[n].k \in pat}

MatchedValue(pat, lines) ==
    Num(lines[CHOOSE n \in Matching(pat, lines) :
                  \A m \in Matching(pat, lines) : n <= m].v)

\* grep -oP "<pat>\K[0-9.]+" file 2>/dev/null: the matched number and
\* status 0, or no output and status 1 when no line matches.
GrepCmd(pat, lines) ==
    IF Matching(pat, lines) # {}
    THEN [status |-> 0, out |-> MatchedValue(pat, lines)]
    ELSE [status |-> 1, out |-> EMPTY]

\* awk '/<pat>/ {print $6}' file 2>/dev/null: field 6 of the matching line;
\* awk exits 0 whether or not a line matched.
AwkCmd(pat, lines) ==
    IF Matching(pat, lines) # {}
    THEN [status |-> 0, out |-> MatchedValue(pat, lines)]
    ELSE [status |-> 0, out |-> EMPTY]

\* echo "N/A"
EchoNA == [status |-> 0, out |-> NA]

\* $(c1 || c2 || ... ): the output of the first command that exits 0.
OrChain(cmds) ==
    cmds[CHOOSE n \in 1..Len(cmds) :
            /\ cmds[n].status = 0
            /\ \A m \in 1..(n - 1) : cmds[m].status # 0].out

GrepChain(pats, lines) ==
    OrChain([n \in 1..(Len(pats) + 1) |->
                IF n <= Len(pats) THEN GrepCmd(pats[n], lines) ELSE EchoNA])

AwkChain(pats, lines) ==
    OrChain([n \in 1..(Len(pats) + 1) |->
                IF n <= Len(pats) THEN AwkCmd(pats[n], lines) ELSE EchoNA])

AllNA == [avg |-> NA, p50 |-> NA, p99 |-> NA, max |-> NA]

\* extract_metrics: the record it echoes for a file [exists, lines].
extract_metrics(file) ==
    IF ~file.exists
    THEN AllNA
    ELSE [avg |-> GrepChain(AvgPatterns, file.lines),
          p50 |-> AwkChain(P50Patterns, file.lines),
          p99 |-> AwkChain(P99Patterns, file.lines),
          max |-> AwkChain(MaxPatterns, file.lines)]

\* The metrics run_sockperf greps inline for the per-role summary row.
InlineMetrics(lines) ==
    [avg  |-> GrepChain(<< {"avg-lat="} >>, lines),
     min  |-> GrepChain(<< {"min-lat="} >>, lines),
     max  |-> GrepChain(<< {"max-lat="} >>, lines),
     p50  |-> GrepChain(<< {"median-lat="} >>, lines),
     p99  |-> GrepChain(<< {"percentile 99.00="} >>, lines),
     p999 |-> GrepChain(<< {"percentile 99.90="} >>, lines),
     mps  |-> GrepChain(<< {"Rate="} >>, lines)]

\* sed -i "<n>i\<text>" file: insert before line n, when line n exists.
SedInsert(lines, n, l) ==
    IF n <= Len(lines)
    THEN SubSeq(lines, 1, n - 1) \o <<l>> \o SubSeq(lines, n, Len(lines))
    ELSE lines

\* The five sed commands of run_sockperf that prefix the provenance header.
AddHeader(lines) ==
    LET l1 == SedInsert(lines, 1, Line("# 5-Tuple: ", 0))
        l2 == SedInsert(l1, 2, Line("# Test type: ", 0))
        l3 == SedInsert(l2, 3, Line("# Iteration: ", 0))
        l4 == SedInsert(l3, 4, Line("# Timestamp: ", 0))
    IN  SedInsert(l4, 5, Line("#-----", 0))

-----------------------------------------------------------------------------
(* Improvement arithmetic *)

\* The number awk takes a string for: a string that is no number counts 0.
AwkNum(x) == IF IsNum(x) THEN x.val ELSE 0

\* n * 10000 / d rounded to the nearest integer (ties to even), d > 0:
\* the hundredths of a percent that printf "%.2f" prints for (n/d)*100.
Pct2(n, d) ==
    LET a  == Abs(n)
        p1 == (a * 100) \div d
        r1 == (a * 100) % d
        p2 == (r1 * 100) \div d
        r2 == (r1 * 100) % d
        h  == p1 * 100 + p2
        up == IF 2 * r2 > d \/ (2 * r2 = d /\ h % 2 = 1) THEN h + 1 ELSE h
    IN  IF n < 0 THEN 0 - up ELSE up

\* Per-trial improvement of part_002: the [[ ... ]] guard and the awk
\* program  if(eni > 0) printf "%.2f", ((eni-srd)/eni)*100; else print "N/A".
\* An operand that is no number (a value captured with --debug) compares
\* as a string, greater than 0, and counts 0 in the division.
ImprovementNoZeroGuard(eni, srd) ==
    IF eni # NA /\ srd # NA /\ eni # EMPTY /\ srd # EMPTY
    THEN IF ~IsNum(eni)
         THEN AWKERR
         ELSE IF eni.val > 0
              THEN Num(Pct2(eni.val - AwkNum(srd), eni.val))
              ELSE AWKERR
    ELSE NA

Improvement(eni, srd) ==
    IF eni # NA /\ srd # NA /\ eni # EMPTY /\ srd # EMPTY
    THEN IF ~IsNum(eni)
         THEN AWKERR
         ELSE IF eni.val > 0
              THEN Num(Pct2(eni.val - AwkNum(srd), eni.val))
              ELSE NA
    ELSE NA

\* bc with scale=2 evaluating ((n / d) * 100): the quotient is truncated
\* to two decimals before it is multiplied, so the result is a whole
\* percent.  In hundredths of a percent.
BcPct(n, d) ==
    LET q == ((Abs(n) * 100) \div d) * 100
    IN  IF n < 0 THEN 0 - q ELSE q

\* part_001: IMPROVEMENT=$(echo "scale=2; ((ENA - EXPRESS) / ENA) * 100" | bc)
\* bc prints nothing on a syntax error or a division by zero.
BcLatencyImprovement(ena, express) ==
    IF IsNum(ena) /\ IsNum(express) /\ ena.val # 0
    THEN Num(BcPct(ena.val - express.val, ena.val))
    ELSE EMPTY

\* part_001: IMPROVEMENT=$(echo "scale=2; ((EXPRESS - ENA) / ENA) * 100" | bc)
BcThroughputImprovement(ena, express) ==
    IF IsNum(ena) /\ IsNum(express) /\ ena.val # 0
    THEN Num(BcPct(express.val - ena.val, ena.val))
    ELSE EMPTY

-----------------------------------------------------------------------------
(* Summary means: awk -F, '$4=="UDP" {sum+=$N; count++}                     *)
(*                END {if(count>0) print sum/count; else print "N/A"}'      *)

RECURSIVE SumTo(_, _)
SumTo(s, n) == IF n = 0 THEN 0 ELSE AwkNum(s[n]) + SumTo(s, n - 1)

\* sum+=$N over the rows
SumSeq(s) == SumTo(s, Len(s))

\* n / d rounded to the nearest integer, ties to even (d > 0, n >= 0).
RoundDiv(n, d) ==
    LET q == n \div d
        r == n % d
    IN  IF 2 * r > d \/ (2 * r = d /\ q % 2 = 1) THEN q + 1 ELSE q

\* print sum/count under awk's OFMT "%.6g": six significant digits.  In
\* latency units the quotient keeps all its digits below 10 microseconds
\* and loses one digit per further decade.
Fmt6g(sum, count) ==
    LET P == CHOOSE p \in {1, 10, 100, 1000} :
                 /\ (sum \div (count * p)) < 1000000
                 /\ \A q \in {1, 10, 100, 1000} :
                        (sum \div (count * q)) < 1000000 => p <= q
    IN  RoundDiv(sum, count * P) * P

\* One awk command over the column `col` of the rows selected by $4=="UDP".
ColumnMean(col) ==
    IF Len(col) > 0
    THEN CHOOSE m \in {Num(Fmt6g(s, Len(col))) : s \in {SumSeq(col)}} : TRUE
    ELSE NA

Column(rows, r, f) == [n \in 1..Len(rows) |-> rows[n][r][f]]

\* Run-level improvement: the [[ ... ]] guard compares with N/A only.
OverallImprovement(eni, srd) ==
    IF eni # NA /\ srd # NA
    THEN IF eni.val > 0
         THEN Num(Pct2(eni.val - srd.val, eni.val))
         ELSE NA
    ELSE NA

-----------------------------------------------------------------------------
(* The benchmark tool.  What one sockperf execution can do: its exit      *)
(* status and the text it leaves in its output file.                       *)

BASE_PORT == 10000

BaseLatency(r) == IF r = "ENI" THEN 8 ELSE 6

\* A complete run in the current output format.
OutcomeOk(r) ==
    [status |-> 0,
     lines  |-> << Line("Summary: Latency is ", Usec(BaseLatency(r))),
                   Line("percentile 99.000 =", Usec(BaseLatency(r) + 4)),
                   Line("percentile 50.000 =", Usec(BaseLatency(r) - 1)),
                   Line("<MAX> observation =", Usec(BaseLatency(r) + 10)) >>]

\* A complete run of a build that spells the average and the median
\* differently.
OutcomeOtherFormat(r) ==
    [status |-> 0,
     lines  |-> << Line("avg-latency=", Usec(BaseLatency(r) - 2)),
                   Line("percentile 99.000 =", Usec(BaseLatency(r) + 2)),
                   Line("percentile 50.00 =", Usec(BaseLatency(r) - 3)),
                   Line("<MAX> observation =", Usec(BaseLatency(r) + 6)) >>]

\* A run that exits non-zero after it has printed part of its results.
OutcomeFailed(r) ==
    [status |-> 1,
     lines  |-> << Line("avg-lat=", Usec(BaseLatency(r) + 12)),
                   Line("sockperf: ERROR", 0) >>]

RunOutcomes(r) == {OutcomeOk(r), OutcomeOtherFormat(r), OutcomeFailed(r)}

-----------------------------------------------------------------------------
(* The UDP benchmark script *)

CsvFiles == {"eni_summary", "srd_summary", "comparison"}

SummaryFile(r) == IF r = "ENI" THEN "eni_summary" ELSE "srd_summary"

\* The header lines of the CSV files.
SummaryHeader ==
    << "Iteration", "Repeat", "Timestamp", "Source_IP", "Source_Port",
       "Dest_IP", "Dest_Port", "Protocol", "MPS", "Avg_Latency_usec",
       "Min_Latency_usec", "Max_Latency_usec", "Percentile_50th",
       "Percentile_99th", "Percentile_99.9th" >>

ComparisonHeader ==
    << "Iteration", "Repeat", "Timestamp", "ENI_5Tuple", "SRD_5Tuple",
       "ENI_Avg", "SRD_Avg", "ENI_p50", "SRD_p50", "ENI_p99", "SRD_p99",
       "Improvement_Avg_Percent", "Improvement_p50_Percent",
       "Improvement_p99_Percent" >>

HeaderOf(f) == IF f = "comparison" THEN ComparisonHeader ELSE SummaryHeader

\* What the fields of a data row hold, in the order the echo writes them.
SummaryRowLayout ==
    << "Iteration", "Repeat", "Timestamp", "Source_IP", "Source_Port",
       "Dest_IP", "Dest_Port", "Protocol", "MPS", "Avg_Latency_usec",
       "Min_Latency_usec", "Max_Latency_usec", "Percentile_50th",
       "Percentile_99th", "Percentile_99.9th" >>

ComparisonRowLayout ==
    << "Iteration", "Repeat", "Timestamp", "Protocol", "ENI_5Tuple",
       "SRD_5Tuple", "ENI_Avg", "SRD_Avg", "ENI_p50", "SRD_p50", "ENI_p99",
       "SRD_p99", "ENI_Max", "SRD_Max", "Improvement_Avg_Percent",
       "Improvement_p50_Percent", "Improvement_p99_Percent",
       "Improvement_Max_Percent" >>

\* echo "<row>" >> file: the rows of the file after the command.
OverwriteLine(rows, row) == <<row>>

PrependLine(rows, row) == <<row>> \o rows

AppendLine(rows, row) == Append(rows, row)

NoMetrics == [avg |-> EMPTY, p50 |-> EMPTY, p99 |-> EMPTY, max |-> EMPTY]

NoReport ==
    [written |-> FALSE, totalTests |-> 0,
     mean |-> [r \in Roles |-> NoMetrics], improvement |-> NoMetrics]

IdleJob == [st |-> "idle", ret |-> 0, i |-> 0, j |-> 0]

Path(r, a, b) == <<r, a, b>>

\* PORT_ENI_BASE=$((BASE_PORT + i * 2)), PORT_SRD_BASE=$((BASE_PORT + i * 2 + 1))
LocalPortSameParity(r, a) ==
    IF r = "ENI" THEN BASE_PORT + a * 2 ELSE BASE_PORT + a * 2 + 2

LocalPort(r, a) == IF r = "ENI" THEN BASE_PORT + a * 2 ELSE BASE_PORT + a * 2 + 1

Init ==
    /\ DEBUG \in BOOLEAN
    /\ headers = <<>>
    /\ ITERATIONS \in 1..MaxIterations
    /\ REPEAT \in 1..MaxRepeat
    /\ ITERATIONS * REPEAT <= MaxTrials
    /\ pc = "setup"
    /\ i = 0
    /\ j = 0
    /\ exitCode = -1
    /\ probe = [r \in Roles |-> "none"]
    /\ ping = [r \in Roles |-> "none"]
    /\ probeCount = [r \in Roles |-> 0]
    /\ job = [r \in Roles |-> IdleJob]
    /\ launched = 0
    /\ files = <<>>
    /\ summary = [r \in Roles |-> <<>>]
    /\ comparison = <<>>
    /\ trialExit = <<>>
    /\ metrics = [r \in Roles |-> NoMetrics]
    /\ imp = NoMetrics
    /\ cooldowns = <<>>
    /\ report = NoReport
    /\ fnPc = "off"
    /\ fnFile = [exists |-> FALSE, lines |-> <<>>]
    /\ fnB = NA
    /\ fnE = NA
    /\ fnRec = AllNA
    /\ fnRec2 = AllNA
    /\ fnImp = NA

\* mkdir -p of the output directories; echo "<header>" > file for the three
\* CSV files.
Setup ==
    /\ pc = "setup"
    /\ headers' = [f \in CsvFiles |-> HeaderOf(f)]
    /\ summary' = [r \in Roles |-> <<>>]
    /\ comparison' = <<>>
    /\ pc' = "probeENI"
    /\ UNCHANGED <<DEBUG, ITERATIONS, REPEAT, i, j, exitCode, probe, ping,
                   probeCount, job, launched, files, trialExit, metrics, imp,
                   cooldowns, report>>
    /\ UNCHANGED fnVars

\* check_sockperf_server: status 1 when the probe fails, else 0.
check_sockperf_server(status) == IF status # 0 THEN 1 ELSE 0

\* check_sockperf_server ... || exit 1
AfterProbeIgnoringFailure(ret, next) == next

AfterProbe(ret, next) == IF ret # 0 THEN "aborted" ELSE next

ProbePingOverrides(r, next) ==
    \E status \in {0, 1}, pong \in {"ok", "fail"} :
        /\ probe' = [probe EXCEPT ![r] = IF status # 0 THEN "fail" ELSE "ok"]
        /\ ping' = [ping EXCEPT ![r] = IF status # 0 THEN pong ELSE "none"]
        /\ probeCount' = [probeCount EXCEPT ![r] = @ + 1]
        /\ pc' = AfterProbe(IF status # 0 /\ pong = "fail" THEN 1 ELSE 0, next)
        /\ exitCode' = IF pc' = "aborted" THEN 1 ELSE exitCode
        /\ UNCHANGED <<DEBUG, headers,
                       ITERATIONS, REPEAT, i, j, job, launched, files,
                       summary, comparison, trialExit, metrics, imp,
                       cooldowns, report>>
        /\ UNCHANGED fnVars

Probe(r, next) ==
    \E status \in {0, 1}, pong \in {"ok", "fail"} :
        /\ probe' = [probe EXCEPT ![r] = IF status # 0 THEN "fail" ELSE "ok"]
        /\ ping' = [ping EXCEPT ![r] = IF status # 0 THEN pong ELSE "none"]
        /\ probeCount' = [probeCount EXCEPT ![r] = @ + 1]
        /\ pc' = AfterProbe(check_sockperf_server(status), next)
        /\ exitCode' = IF pc' = "aborted" THEN 1 ELSE exitCode
        /\ UNCHANGED <<DEBUG, headers,
                       ITERATIONS, REPEAT, i, j, job, launched, files,
                       summary, comparison, trialExit, metrics, imp,
                       cooldowns, report>>
        /\ UNCHANGED fnVars

ProbeENI == pc = "probeENI" /\ Probe("ENI", "probeSRD")

ProbeSRD == pc = "probeSRD" /\ Probe("SRD", "forI")

\* for ((i = 0; i < ITERATIONS; i++)): the test, and the ports of the
\* iteration.
ForI ==
    /\ pc = "forI"
    /\ pc' = IF i < ITERATIONS THEN "forJ" ELSE "summarize"
    /\ j' = IF i < ITERATIONS THEN 0 ELSE j
    /\ UNCHANGED <<DEBUG, headers,
                   ITERATIONS, REPEAT, i, exitCode, probe, ping, probeCount,
                   job, launched, files, summary, comparison, trialExit,
                   metrics, imp, cooldowns, report>>
    /\ UNCHANGED fnVars

\* for ((j = 0; j < REPEAT; j++)): the test.
ForJ ==
    /\ pc = "forJ"
    /\ pc' = IF j < REPEAT THEN "launchENI" ELSE "iterCooldown"
    /\ UNCHANGED <<DEBUG, headers,
                   ITERATIONS, REPEAT, i, j, exitCode, probe, ping,
                   probeCount, job, launched, files, summary, comparison,
                   trialExit, metrics, imp, cooldowns, report>>
    /\ UNCHANGED fnVars

\* run_sockperf ... > /dev/null &
Launch(r, next) ==
    /\ job' = [job EXCEPT ![r] = [st |-> "running", ret |-> -1,
                                  i |-> i, j |-> j]]
    /\ launched' = launched + 1
    /\ files' = [p \in (DOMAIN files) \cup {Path(r, i, j)} |->
                    IF p = Path(r, i, j) THEN <<>> ELSE files[p]]
    /\ pc' = next
    /\ UNCHANGED <<DEBUG, headers,
                   ITERATIONS, REPEAT, i, j, exitCode, probe, ping,
                   probeCount, summary, comparison, trialExit, metrics, imp,
                   cooldowns, report>>
    /\ UNCHANGED fnVars

LaunchENI == pc = "launchENI" /\ Launch("ENI", "launchSRD")

LaunchSRD == pc = "launchSRD" /\ Launch("SRD", "waitENI")

\* Background job: sockperf terminates, its output is in the file; on a
\* non-zero status run_sockperf returns 1 at once.
JobExit(r) ==
    /\ job[r].st = "running"
    /\ \E o \in RunOutcomes(r) :
        /\ files' = [files EXCEPT ![Path(r, job[r].i, job[r].j)] = o.lines]
        /\ job' = [job EXCEPT ![r].st = IF o.status # 0 THEN "done" ELSE "post",
                              ![r].ret = IF o.status # 0 THEN 1 ELSE -1]
    /\ UNCHANGED <<DEBUG, headers,
                   ITERATIONS, REPEAT, pc, i, j, exitCode, probe, ping,
                   probeCount, launched, summary, comparison, trialExit,
                   metrics, imp, cooldowns, report>>
    /\ UNCHANGED fnVars

\* Background job: sockperf never exits.  run_sockperf stays in the sockperf
\* command; nothing in the script ends it.
JobHang(r) ==
    /\ job[r].st = "running"
    /\ job' = [job EXCEPT ![r].st = "hung"]
    /\ UNCHANGED <<DEBUG, headers, ITERATIONS, REPEAT, pc, i, j, exitCode,
                   probe, ping, probeCount, launched, files, summary,
                   comparison, trialExit, metrics, imp, cooldowns, report>>
    /\ UNCHANGED fnVars

\* Background job after a successful run: inline metrics, provenance
\* header, per-role summary row.
JobPost(r) ==
    /\ job[r].st = "post"
    /\ LET p == Path(r, job[r].i, job[r].j)
           m == InlineMetrics(files[p])
       IN  /\ files' = [files EXCEPT ![p] = AddHeader(files[p])]
           /\ summary' = [summary EXCEPT ![r] =
                            AppendLine(@, [i |-> job[r].i, j |-> job[r].j,
                                           port |-> LocalPort(r, job[r].i),
                                           m |-> m,
                                           cols |-> SummaryRowLayout])]
    /\ job' = [job EXCEPT ![r].st = "done", ![r].ret = 0]
    /\ UNCHANGED <<DEBUG, headers,
                   ITERATIONS, REPEAT, pc, i, j, exitCode, probe, ping,
                   probeCount, launched, comparison, trialExit, metrics,
                   imp, cooldowns, report>>
    /\ UNCHANGED fnVars

\* wait $PID returns once the job has terminated.
TerminatedNoWait(r) == TRUE

TerminatedNever(r) == FALSE

Terminated(r) == job[r].st = "done"

\* The status wait returns is not looked at.
AfterRunAbortOnFailure(ret, next) == IF ret # 0 THEN "aborted" ELSE next

AfterRun(ret, next) == next

Wait(r, next) ==
    /\ Terminated(r)
    /\ pc' = AfterRun(job[r].ret, next)
    /\ exitCode' = IF pc' = "aborted" THEN 1 ELSE exitCode
    /\ UNCHANGED <<DEBUG, headers,
                   ITERATIONS, REPEAT, i, j, probe, ping, probeCount, job,
                   launched, files, summary, comparison, trialExit, metrics,
                   imp, cooldowns, report>>
    /\ UNCHANGED fnVars

WaitENI == pc = "waitENI" /\ Wait("ENI", "waitSRD")

WaitSRD == pc = "waitSRD" /\ Wait("SRD", "extract")

\* VAR=$(echo "$METRICS" | cut -d';' -f<k>) on the captured standard output
\* of extract_metrics: cut passes every line without a ';' through, so
\* with --debug each variable holds the DEBUG: lines before its value.
CutFields(debug, rec) ==
    IF debug THEN [f \in Fields |-> Polluted(rec[f])] ELSE rec

FileAt(p) ==
    IF p \in DOMAIN files
    THEN [exists |-> TRUE, lines |-> files[p]]
    ELSE [exists |-> FALSE, lines |-> <<>>]

\* ENI_UDP_METRICS=$(extract_metrics ...), SRD likewise, and the cut
\* commands that split the record into the shell variables.
Extract ==
    /\ pc = "extract"
    /\ metrics' = [r \in Roles |->
                       CutFields(DEBUG, extract_metrics(FileAt(Path(r, i, j))))]
    /\ pc' = "improve"
    /\ UNCHANGED <<DEBUG, headers,
                   ITERATIONS, REPEAT, i, j, exitCode, probe, ping,
                   probeCount, job, launched, files, summary, comparison,
                   trialExit, imp, cooldowns, report>>
    /\ UNCHANGED fnVars

\* The four improvement blocks of the trial.
Improve ==
    /\ pc = "improve"
    /\ imp' = [f \in Fields |-> Improvement(metrics["ENI"][f], metrics["SRD"][f])]
    /\ pc' = "append"
    /\ UNCHANGED <<DEBUG, headers,
                   ITERATIONS, REPEAT, i, j, exitCode, probe, ping,
                   probeCount, job, launched, files, summary, comparison,
                   trialExit, metrics, cooldowns, report>>
    /\ UNCHANGED fnVars

ComparisonRow ==
    [i |-> i, j |-> j, proto |-> "UDP",
     eniPort |-> LocalPort("ENI", i), srdPort |-> LocalPort("SRD", i),
     ENI |-> metrics["ENI"], SRD |-> metrics["SRD"], imp |-> imp,
     cols |-> ComparisonRowLayout]

\* echo "${i},${j},...,${UDP_MAX_IMPROVEMENT}" >> "${COMPARISON}" and the
\* console summary of the trial.
AppendRowUnlessFailed ==
    /\ pc = "append"
    /\ comparison' = IF job["ENI"].ret # 0 \/ job["SRD"].ret # 0
                     THEN comparison
                     ELSE Append(comparison, ComparisonRow)
    /\ trialExit' = Append(trialExit, [r \in Roles |-> job[r].ret])
    /\ pc' = "repeatCooldown"
    /\ UNCHANGED <<DEBUG, headers,
                   ITERATIONS, REPEAT, i, j, exitCode, probe, ping,
                   probeCount, job, launched, files, summary, metrics, imp,
                   cooldowns, report>>
    /\ UNCHANGED fnVars

AppendRow ==
    /\ pc = "append"
    /\ comparison' = AppendLine(comparison, ComparisonRow)
    /\ trialExit' = Append(trialExit, [r \in Roles |-> job[r].ret])
    /\ pc' = "repeatCooldown"
    /\ UNCHANGED <<DEBUG, headers,
                   ITERATIONS, REPEAT, i, j, exitCode, probe, ping,
                   probeCount, job, launched, files, summary, metrics, imp,
                   cooldowns, report>>
    /\ UNCHANGED fnVars

\* if [[ $j -lt $((REPEAT-1)) ]]; then sleep 10; fi; j++
RepeatCooldownAlways ==
    /\ pc = "repeatCooldown"
    /\ cooldowns' = Append(cooldowns, 10)
    /\ j' = j + 1
    /\ pc' = "forJ"
    /\ UNCHANGED <<DEBUG, headers,
                   ITERATIONS, REPEAT, i, exitCode, probe, ping, probeCount,
                   job, launched, files, summary, comparison, trialExit,
                   metrics, imp, report>>
    /\ UNCHANGED fnVars

RepeatCooldown ==
    /\ pc = "repeatCooldown"
    /\ cooldowns' = IF j < REPEAT - 1 THEN Append(cooldowns, 10) ELSE cooldowns
    /\ j' = j + 1
    /\ pc' = "forJ"
    /\ UNCHANGED <<DEBUG, headers,
                   ITERATIONS, REPEAT, i, exitCode, probe, ping, probeCount,
                   job, launched, files, summary, comparison, trialExit,
                   metrics, imp, report>>
    /\ UNCHANGED fnVars

\* if [[ $i -lt $((ITERATIONS-1)) ]]; then sleep 30; fi; i++
IterCooldown ==
    /\ pc = "iterCooldown"
    /\ cooldowns' = IF i < ITERATIONS - 1 THEN Append(cooldowns, 30) ELSE cooldowns
    /\ i' = i + 1
    /\ pc' = "forI"
    /\ UNCHANGED <<DEBUG, headers,
                   ITERATIONS, REPEAT, j, exitCode, probe, ping, probeCount,
                   job, launched, files, summary, comparison, trialExit,
                   metrics, imp, report>>
    /\ UNCHANGED fnVars

\* The eight awk means over comparison.csv.
Means ==
    [r \in Roles |-> [f \in Fields |-> ColumnMean(Column(comparison, r, f))]]

\* Means, run-level improvements, summary_report.txt, 5tuple_summary.txt;
\* the script ends with status 0.
Summarize ==
    /\ pc = "summarize"
    /\ \E m \in {Means} :
           report' = [written |-> TRUE,
                      totalTests |-> ITERATIONS * REPEAT,
                      mean |-> m,
                      improvement |->
                          [f \in Fields |->
                              OverallImprovement(m["ENI"][f], m["SRD"][f])]]
    /\ exitCode' = 0
    /\ pc' = "done"
    /\ UNCHANGED <<DEBUG, headers,
                   ITERATIONS, REPEAT, i, j, probe, ping, probeCount, job,
                   launched, files, summary, comparison, trialExit, metrics,
                   imp, cooldowns>>
    /\ UNCHANGED fnVars

Next ==
    \/ Setup
    \/ ProbeENI
    \/ ProbeSRD
    \/ ForI
    \/ ForJ
    \/ LaunchENI
    \/ LaunchSRD
    \/ \E r \in Roles : JobExit(r)
    \/ \E r \in Roles : JobHang(r)
    \/ \E r \in Roles : JobPost(r)
    \/ WaitENI
    \/ WaitSRD
    \/ Extract
    \/ Improve
    \/ AppendRow
    \/ RepeatCooldown
    \/ IterCooldown
    \/ Summarize

Spec == Init /\ [][Next]_vars

\* The shell runs the script's commands one after another and the kernel
\* schedules every background job: a step that can be taken is taken.
LiveSpec == Init /\ [][Next]_vars /\ WF_vars(Next)

-----------------------------------------------------------------------------
(* The TCP benchmark script, scripts/ena_express_latency_benchmark.sh.     *)
(* Its loops, launches, waits and cooldowns are the commands of the UDP    *)
(* script, and ForI, ForJ, LaunchENI, LaunchSRD, JobHang, WaitENI, WaitSRD, *)
(* RepeatCooldown and IterCooldown stand for them here as well.  The TCP   *)
(* script has no --debug option, no probe and no check of sockperf's exit  *)
(* status.                                                                 *)

TcpBasePort == 10004

TcpFields == {"avg", "p50", "p99"}

\* PORT_ENI=$((BASE_PORT + i * 2)), PORT_SRD=$((BASE_PORT + i * 2 + 1))
TcpLocalPort(r, a) ==
    IF r = "ENI" THEN TcpBasePort + a * 2 ELSE TcpBasePort + a * 2 + 1

RECURSIVE Pow10(_)
Pow10(k) == IF k = 0 THEN 1 ELSE 10 * Pow10(k - 1)

RECURSIVE Decimals(_, _, _)
\* The first k decimal digits of r / d, for 0 <= r < d, as one integer.
Decimals(r, d, k) ==
    IF k = 0 THEN 0
    ELSE ((r * 10) \div d) * Pow10(k - 1) + Decimals((r * 10) % d, d, k - 1)

\* print (n/d)*100 under awk's OFMT "%.6g", in units of 10^-5 percent: six
\* significant digits, that is two decimals from 1000 percent on, three
\* from 100, four from 10 and five below.
Pct6g(n, d) ==
    LET a  == Abs(n)
        p  == (a * 100) \div d
        r  == (a * 100) % d
        up == CASE p >= 1000 ->
                       ((p * 1000 + Decimals(r, d, 3) + 5) \div 10) * 1000
                [] p >= 100 /\ p < 1000 ->
                       ((p * 10000 + Decimals(r, d, 4) + 5) \div 10) * 100
                [] p >= 10 /\ p < 100 ->
                       ((p * 100000 + Decimals(r, d, 5) + 5) \div 10) * 10
                [] OTHER ->
                       (p * 1000000 + Decimals(r, d, 6) + 5) \div 10
    IN  IF n < 0 THEN 0 - up ELSE up

\* if [[ "$ENI" != "N/A" && "$SRD" != "N/A" ]]; then
\*     awk "BEGIN {print (($ENI-$SRD)/$ENI)*100}"; else N/A.
\* The operands are pasted into the awk program: text that is no number
\* makes it a syntax error and awk prints nothing; a zero baseline is a
\* division by zero.  The run-level computation is the awk command alone.
TcpImprovement(eni, srd) ==
    IF eni = NA \/ srd = NA
    THEN NA
    ELSE IF IsNum(eni) /\ IsNum(srd)
         THEN IF eni.val = 0
              THEN AWKERR
              ELSE Num(Pct6g(eni.val - srd.val, eni.val))
         ELSE EMPTY

\* awk -F, 'NR>1 {sum+=$N; count++} END {print sum/count}' over a per-role
\* summary.
TcpColumnMean(col) ==
    IF Len(col) > 0
    THEN CHOOSE m \in {Num(Fmt6g(t, Len(col))) : t \in {SumSeq(col)}} : TRUE
    ELSE AWKERR

\* VAR=$(echo "$METRICS" | cut -d';' -f<k>) on the captured standard output
\* of run_sockperf, which begins with the line "Running <type> test ...":
\* cut passes that line through, so each variable holds it before its value.
TcpCutFields(m) == [f \in TcpFields |-> Polluted(m[f])]

TcpInit ==
    /\ DEBUG = FALSE
    /\ headers = <<>>
    /\ ITERATIONS \in 1..MaxIterations
    /\ REPEAT \in 1..MaxRepeat
    /\ ITERATIONS * REPEAT <= MaxTrials
    /\ pc = "tcpSetup"
    /\ i = 0
    /\ j = 0
    /\ exitCode = -1
    /\ probe = [r \in Roles |-> "none"]
    /\ ping = [r \in Roles |-> "none"]
    /\ probeCount = [r \in Roles |-> 0]
    /\ job = [r \in Roles |-> IdleJob]
    /\ launched = 0
    /\ files = <<>>
    /\ summary = [r \in Roles |-> <<>>]
    /\ comparison = <<>>
    /\ trialExit = <<>>
    /\ metrics = [r \in Roles |-> NoMetrics]
    /\ imp = NoMetrics
    /\ cooldowns = <<>>
    /\ report = NoReport
    /\ fnPc = "off"
    /\ fnFile = [exists |-> FALSE, lines |-> <<>>]
    /\ fnB = NA
    /\ fnE = NA
    /\ fnRec = AllNA
    /\ fnRec2 = AllNA
    /\ fnImp = NA

\* mkdir -p of the output directories; echo "<header>" > file for the three
\* CSV files.
TcpSetup ==
    /\ pc = "tcpSetup"
    /\ headers' = [f \in CsvFiles |-> HeaderOf(f)]
    /\ summary' = [r \in Roles |-> <<>>]
    /\ comparison' = <<>>
    /\ pc' = "forI"
    /\ UNCHANGED <<DEBUG, ITERATIONS, REPEAT, i, j, exitCode, probe, ping,
                   probeCount, job, launched, files, trialExit, metrics, imp,
                   cooldowns, report>>
    /\ UNCHANGED fnVars

\* The per-role row run_sockperf appends for the run (a, b) of role r.
TcpSummaryRow(r, a, b, lines) ==
    [i |-> a, j |-> b, port |-> TcpLocalPort(r, a),
     m |-> InlineMetrics(lines), cols |-> SummaryRowLayout]

\* Background job: sockperf terminates, its output is in the file;
\* run_sockperf goes on whatever the status.
TcpJobExit(r) ==
    /\ job[r].st = "running"
    /\ \E o \in RunOutcomes(r) :
           files' = [files EXCEPT ![Path(r, job[r].i, job[r].j)] = o.lines]
    /\ job' = [job EXCEPT ![r].st = "post"]
    /\ UNCHANGED <<DEBUG, headers,
                   ITERATIONS, REPEAT, pc, i, j, exitCode, probe, ping,
                   probeCount, launched, summary, comparison, trialExit,
                   metrics, imp, cooldowns, report>>
    /\ UNCHANGED fnVars

\* Background job: inline metrics, provenance header, per-role summary row;
\* the record it echoes goes to /dev/null.
TcpJobPost(r) ==
    /\ job[r].st = "post"
    /\ LET p == Path(r, job[r].i, job[r].j)
       IN  /\ summary' = [summary EXCEPT ![r] =
                            AppendLine(@, TcpSummaryRow(r, job[r].i, job[r].j,
                                                        files[p]))]
           /\ files' = [files EXCEPT ![p] = AddHeader(files[p])]
    /\ job' = [job EXCEPT ![r].st = "done", ![r].ret = 0]
    /\ UNCHANGED <<DEBUG, headers,
                   ITERATIONS, REPEAT, pc, i, j, exitCode, probe, ping,
                   probeCount, launched, comparison, trialExit, metrics,
                   imp, cooldowns, report>>
    /\ UNCHANGED fnVars

\* ENI_METRICS=$(run_sockperf ...) after the wait: run_sockperf is called
\* again in the foreground.  sockperf runs once more and its output
\* replaces the raw log; the header is added, a second per-role row is
\* appended and the captured output is cut into the shell variables.
TcpRerun(r, next) ==
    /\ \E o \in RunOutcomes(r) :
           /\ files' = [files EXCEPT ![Path(r, i, j)] = AddHeader(o.lines)]
           /\ summary' = [summary EXCEPT ![r] =
                            AppendLine(@, TcpSummaryRow(r, i, j, o.lines))]
           /\ metrics' = [metrics EXCEPT ![r] =
                            TcpCutFields(InlineMetrics(o.lines))]
    /\ launched' = launched + 1
    /\ pc' = next
    /\ UNCHANGED <<DEBUG, headers,
                   ITERATIONS, REPEAT, i, j, exitCode, probe, ping,
                   probeCount, job, comparison, trialExit, imp, cooldowns,
                   report>>
    /\ UNCHANGED fnVars

TcpRerunENI == pc = "extract" /\ TcpRerun("ENI", "rerunSRD")

TcpRerunSRD == pc = "rerunSRD" /\ TcpRerun("SRD", "improve")

\* The foreground sockperf never exits: the script stays in the command.
TcpRerunHang ==
    /\ pc \in {"extract", "rerunSRD"}
    /\ launched' = launched + 1
    /\ pc' = "hung"
    /\ UNCHANGED <<DEBUG, headers,
                   ITERATIONS, REPEAT, i, j, exitCode, probe, ping,
                   probeCount, job, files, summary, comparison, trialExit,
                   metrics, imp, cooldowns, report>>
    /\ UNCHANGED fnVars

\* The three improvement blocks of the trial.
TcpImprove ==
    /\ pc = "improve"
    /\ imp' = [f \in TcpFields |->
                  TcpImprovement(metrics["ENI"][f], metrics["SRD"][f])]
    /\ pc' = "append"
    /\ UNCHANGED <<DEBUG, headers,
                   ITERATIONS, REPEAT, i, j, exitCode, probe, ping,
                   probeCount, job, launched, files, summary, comparison,
                   trialExit, metrics, cooldowns, report>>
    /\ UNCHANGED fnVars

TcpComparisonRow ==
    [i |-> i, j |-> j, proto |-> "TCP",
     eniPort |-> TcpLocalPort("ENI", i), srdPort |-> TcpLocalPort("SRD", i),
     ENI |-> metrics["ENI"], SRD |-> metrics["SRD"], imp |-> imp,
     cols |-> ComparisonHeader]

\* echo "${i},${j},...,${P99_IMPROVEMENT}" >> "${COMPARISON}" and the
\* console summary of the trial.
TcpAppendRow ==
    /\ pc = "append"
    /\ comparison' = AppendLine(comparison, TcpComparisonRow)
    /\ pc' = "repeatCooldown"
    /\ UNCHANGED <<DEBUG, headers,
                   ITERATIONS, REPEAT, i, j, exitCode, probe, ping,
                   probeCount, job, launched, files, summary, trialExit,
                   metrics, imp, cooldowns, report>>
    /\ UNCHANGED fnVars

\* The six awk means over the per-role summaries.
TcpMeans ==
    [r \in Roles |->
        [f \in TcpFields |->
            TcpColumnMean([n \in 1..Len(summary[r]) |-> summary[r][n].m[f]])]]

\* Means, run-level improvements, summary_report.txt, 5tuple_summary.txt.
TcpSummarize ==
    /\ pc = "summarize"
    /\ \E m \in {TcpMeans} :
           report' = [written |-> TRUE,
                      totalTests |-> ITERATIONS * REPEAT,
                      mean |-> m,
                      improvement |->
                          [f \in TcpFields |->
                              TcpImprovement(m["ENI"][f], m["SRD"][f])]]
    /\ exitCode' = 0
    /\ pc' = "done"
    /\ UNCHANGED <<DEBUG, headers,
                   ITERATIONS, REPEAT, i, j, probe, ping, probeCount, job,
                   launched, files, summary, comparison, trialExit, metrics,
                   imp, cooldowns>>
    /\ UNCHANGED fnVars

TcpNext ==
    \/ TcpSetup
    \/ ForI
    \/ ForJ
    \/ LaunchENI
    \/ LaunchSRD
    \/ \E r \in Roles : TcpJobExit(r)
    \/ \E r \in Roles : JobHang(r)
    \/ \E r \in Roles : TcpJobPost(r)
    \/ WaitENI
    \/ WaitSRD
    \/ TcpRerunENI
    \/ TcpRerunSRD
    \/ TcpRerunHang
    \/ TcpImprove
    \/ TcpAppendRow
    \/ RepeatCooldown
    \/ IterCooldown
    \/ TcpSummarize

TcpSpec == TcpInit /\ [][TcpNext]_vars

-----------------------------------------------------------------------------
(* The pure computations on inputs drawn from bounded sets *)

LineKinds ==
    {"avg-lat=", "Summary: Latency is ", "average = ",
     "percentile 50.000 =", "percentile 50.00 =", "percentile 99.000 =",
     "<MAX> observation =", "sockperf: ERROR"}

LineValues == {0, Usec(7)}

FnLines == {Line(k, v) : k \in LineKinds, v \in LineValues}

DistinctKinds(t) ==
    \A m, n \in 1..Len(t) : m # n => t[m].k # t[n].k

FnTexts ==
    UNION {{t \in [1..n -> FnLines] : DistinctKinds(t)} : n \in 0..MaxLines}

NoFile == [exists |-> FALSE, lines |-> <<>>]

FnFiles == {NoFile} \cup {[exists |-> TRUE, lines |-> t] : t \in FnTexts}

FnOperands ==
    {NA, EMPTY, Polluted(Num(MaxOperand))} \cup {Num(n) : n \in 0..MaxOperand}

(* run-performance-tests.sh: metrics.txt *)

\* The keys of metrics.txt, in the order process_results writes them.
MetricKeys ==
    << "TCP_LAT_ENA_AVG", "TCP_LAT_ENA_P50", "TCP_LAT_ENA_P99",
       "TCP_LAT_ENA_P999", "TCP_LAT_EXPRESS_AVG", "TCP_LAT_EXPRESS_P50",
       "TCP_LAT_EXPRESS_P99", "TCP_LAT_EXPRESS_P999", "TCP_TP_ENA",
       "TCP_TP_EXPRESS" >>

MetricNames == {MetricKeys[n] : n \in 1..Len(MetricKeys)}

\* The values process_results computes from the result files.
MetricValues == {1, 2}

\* The characters of a key.
Chars(name) ==
    CASE name = "TCP_LAT_ENA_AVG" ->
           <<"T", "C", "P", "_", "L", "A", "T", "_", "E", "N", "A",
           "_", "A", "V", "G">>
      [] name = "TCP_LAT_ENA_P50" ->
           <<"T", "C", "P", "_", "L", "A", "T", "_", "E", "N", "A",
           "_", "P", "5", "0">>
      [] name = "TCP_LAT_ENA_P99" ->
           <<"T", "C", "P", "_", "L", "A", "T", "_", "E", "N", "A",
           "_", "P", "9", "9">>
      [] name = "TCP_LAT_ENA_P999" ->
           <<"T", "C", "P", "_", "L", "A", "T", "_", "E", "N", "A",
           "_", "P", "9", "9", "9">>
      [] name = "TCP_LAT_EXPRESS_AVG" ->
           <<"T", "C", "P", "_", "L", "A", "T", "_", "E", "X", "P",
           "R", "E", "S", "S", "_", "A", "V", "G">>
      [] name = "TCP_LAT_EXPRESS_P50" ->
           <<"T", "C", "P", "_", "L", "A", "T", "_", "E", "X", "P",
           "R", "E", "S", "S", "_", "P", "5", "0">>
      [] name = "TCP_LAT_EXPRESS_P99" ->
           <<"T", "C", "P", "_", "L", "A", "T", "_", "E", "X", "P",
           "R", "E", "S", "S", "_", "P", "9", "9">>
      [] name = "TCP_LAT_EXPRESS_P999" ->
           <<"T", "C", "P", "_", "L", "A", "T", "_", "E", "X", "P",
           "R", "E", "S", "S", "_", "P", "9", "9", "9">>
      [] name = "TCP_TP_ENA" ->
           <<"T", "C", "P", "_", "T", "P", "_", "E", "N", "A">>
      [] name = "TCP_TP_EXPRESS" ->
           <<"T", "C", "P", "_", "T", "P", "_", "E", "X", "P", "R",
           "E", "S", "S">>

\* grep's match of a fixed pattern: the pattern occurs somewhere in the text.
IsSubstring(p, t) ==
    \E o \in 0..(Len(t) - Len(p)) : SubSeq(t, o + 1, o + Len(p)) = p

\* echo "KEY=$KEY" > metrics.txt for the first key, >> for the others, with
\* all four result files present.
process_results(values) ==
    [exists |-> TRUE,
     lines  |-> [n \in 1..Len(MetricKeys) |->
                    Line(MetricKeys[n], values[MetricKeys[n]])]]

RECURSIVE GrepCut(_, _)
\* grep "<pattern>" metrics.txt | cut -d= -f2: the second field of every
\* line the pattern occurs in, in file order. A value is a numeral, so a
\* pattern can only occur in the key of a line.
GrepCut(pattern, lines) ==
    IF lines = <<>> THEN <<>>
    ELSE (IF IsSubstring(Chars(pattern), Chars(Head(lines).k))
          THEN <<Head(lines).v>> ELSE <<>>)
         \o GrepCut(pattern, Tail(lines))

\* The lookups of generate_summary_report: each shell variable is read back
\* with the name of its key as the pattern.
generate_summary_report(file) ==
    [name \in MetricNames |-> GrepCut(name, file.lines)]

FnInit ==
    /\ DEBUG = FALSE
    /\ headers = <<>>
    /\ ITERATIONS = 1
    /\ REPEAT = 1
    /\ pc = "off"
    /\ i = 0
    /\ j = 0
    /\ exitCode = -1
    /\ probe = [r \in Roles |-> "none"]
    /\ ping = [r \in Roles |-> "none"]
    /\ probeCount = [r \in Roles |-> 0]
    /\ job = [r \in Roles |-> IdleJob]
    /\ launched = 0
    /\ files = <<>>
    /\ summary = [r \in Roles |-> <<>>]
    /\ comparison = <<>>
    /\ trialExit = <<>>
    /\ metrics = [r \in Roles |-> NoMetrics]
    /\ imp = NoMetrics
    /\ cooldowns = <<>>
    /\ report = NoReport
    /\ fnRec2 = AllNA
    /\ fnImp = NA
    /\ \/ /\ fnPc = "input"
          /\ fnRec = AllNA
          /\ \/ fnFile \in FnFiles /\ fnB = NA /\ fnE = NA
             \/ fnFile = NoFile /\ fnB \in FnOperands /\ fnE \in FnOperands
       \/ /\ fnPc = "results"
          /\ fnRec \in [MetricNames -> MetricValues]
          /\ fnFile = NoFile
          /\ fnB = NA
          /\ fnE = NA

\* The file extract_metrics was handed, after the call: every command of
\* the function reads it (wc, head, grep, awk), none writes it.
FileAfterConsumingExtract(file) == [exists |-> file.exists, lines |-> <<>>]

FileAfterExtract(file) == file

FnExtract ==
    /\ fnPc = "input"
    /\ fnRec' = extract_metrics(fnFile)
    /\ fnFile' = FileAfterExtract(fnFile)
    /\ fnPc' = "extracted"
    /\ UNCHANGED <<fnB, fnE, fnRec2, fnImp>>
    /\ UNCHANGED mainVars

\* A second call on the same file.
FnExtractAgain ==
    /\ fnPc = "extracted"
    /\ fnRec2' = extract_metrics(fnFile)
    /\ fnFile' = FileAfterExtract(fnFile)
    /\ fnPc' = "extractedTwice"
    /\ UNCHANGED <<fnB, fnE, fnRec, fnImp>>
    /\ UNCHANGED mainVars

FnImprove ==
    /\ fnPc = "input"
    /\ fnImp' = Improvement(fnB, fnE)
    /\ fnPc' = "improved"
    /\ UNCHANGED <<fnFile, fnB, fnE, fnRec, fnRec2>>
    /\ UNCHANGED mainVars

FnBcLatency ==
    /\ fnPc = "input"
    /\ fnImp' = BcLatencyImprovement(fnB, fnE)
    /\ fnPc' = "bcLatency"
    /\ UNCHANGED <<fnFile, fnB, fnE, fnRec, fnRec2>>
    /\ UNCHANGED mainVars

FnBcThroughput ==
    /\ fnPc = "input"
    /\ fnImp' = BcThroughputImprovement(fnB, fnE)
    /\ fnPc' = "bcThroughput"
    /\ UNCHANGED <<fnFile, fnB, fnE, fnRec, fnRec2>>
    /\ UNCHANGED mainVars

FnProcessResults ==
    /\ fnPc = "results"
    /\ fnFile' = process_results(fnRec)
    /\ fnPc' = "stored"
    /\ UNCHANGED <<fnB, fnE, fnRec, fnRec2, fnImp>>
    /\ UNCHANGED mainVars

FnGenerateReport ==
    /\ fnPc = "stored"
    /\ fnRec2' = generate_summary_report(fnFile)
    /\ fnPc' = "reported"
    /\ UNCHANGED <<fnFile, fnB, fnE, fnRec, fnImp>>
    /\ UNCHANGED mainVars

FnNext ==
    \/ FnProcessResults
    \/ FnGenerateReport
    \/ FnExtract
    \/ FnExtractAgain
    \/ FnImprove
    \/ FnBcLatency
    \/ FnBcThroughput

FnSpec == FnInit /\ [][FnNext]_vars

-----------------------------------------------------------------------------
(* Properties *)

Probing == {"probeENI", "probeSRD"}
Terminal == {"done", "aborted"}
AllTrials == (0..(ITERATIONS - 1)) \X (0..(REPEAT - 1))
RowTrials == {<<comparison[n].i, comparison[n].j>> : n \in 1..Len(comparison)}

\* The number of trials whose comparison row is due at the current position.
RowsExpected ==
    CASE pc \in Probing \cup {"aborted"} -> 0
      [] pc \in {"forI", "summarize", "done"} -> i * REPEAT
      [] pc = "repeatCooldown" -> i * REPEAT + j + 1
      [] OTHER -> i * REPEAT + j

\* C1: a failed probe of either endpoint aborts the run before any trial:
\* once a probe has failed the script is in Aborted, no benchmark execution
\* has been or is ever started, and no endpoint is probed more than once.
C1_ProbeFailureAborts ==
    /\ \A r \in Roles : probeCount[r] <= 1
    /\ probe["ENI"] = "fail" => probeCount["SRD"] = 0
    /\ (\E r \in Roles : probe[r] = "fail") =>
           /\ pc = "aborted"
           /\ exitCode = 1
           /\ launched = 0
           /\ \A r \in Roles : job[r].st = "idle"
           /\ DOMAIN files = {}

C1_Witness ==
    /\ probe["ENI"] = "ok"
    /\ probe["SRD"] = "fail"
    /\ pc = "aborted"

\* C2: a failed benchmark run never aborts the run: Aborted (exit code 1)
\* is entered only from Probing; whatever runs fail, the script is never
\* stuck before a terminal state, and at Done every (iteration, repeat)
\* pair has been executed and the exit code is 0.
C2_RunFailureNeverAborts ==
    /\ [][pc' = "aborted" => pc \in Probing]_vars
    /\ [](exitCode = 1 => pc = "aborted")
    /\ [](pc \notin Terminal /\ (\A r \in Roles : job[r].st # "hung")
               => ENABLED Next)
    /\ [](pc = "done" =>
             /\ exitCode = 0
             /\ RowTrials = AllTrials
             /\ launched = 2 * ITERATIONS * REPEAT)

C2_Witness ==
    /\ pc = "done"
    /\ exitCode = 0
    /\ \E n \in 1..Len(trialExit) :
           trialExit[n]["ENI"] # 0 /\ trialExit[n]["SRD"] # 0
    /\ \E n \in 1..Len(trialExit) : n > 1 /\ trialExit[n - 1]["ENI"] # 0

\* C3: no later stage of a trial (extraction, improvement, comparison row)
\* begins before both executions of that trial have terminated.
C3_JoinBeforeStages ==
    pc \in {"extract", "improve", "append"} =>
        \A r \in Roles :
            /\ job[r].st = "done"
            /\ job[r].i = i
            /\ job[r].j = j

C3_Witness ==
    /\ pc = "extract"
    /\ job["ENI"].ret # 0
    /\ job["SRD"].ret = 0

\* C4: every trial appends exactly one row to comparison.csv, failed runs
\* included: row n is the row of the n-th trial, and at Done the number of
\* rows is ITERATIONS x REPEAT, the Total Tests of the report.
C4_OneRowPerTrial ==
    /\ Len(comparison) = RowsExpected
    /\ \A n \in 1..Len(comparison) :
           comparison[n].i * REPEAT + comparison[n].j = n - 1
    /\ pc = "done" =>
           /\ Len(comparison) = ITERATIONS * REPEAT
           /\ report.totalTests = Len(comparison)

C4_Witness ==
    /\ pc = "done"
    /\ Len(comparison) >= 2
    /\ \E n \in 1..Len(trialExit) :
           trialExit[n]["ENI"] # 0 /\ trialExit[n]["SRD"] # 0

\* C5: when a role's run exits non-zero in a trial, every metric column of
\* that role in the trial's comparison row is N/A.
C5_FailedRunAllNA ==
    \A n \in 1..Len(comparison) : \A r \in Roles :
        trialExit[n][r] # 0 => comparison[n][r] = AllNA

\* C6: the per-trial improvement is N/A whenever the baseline or the
\* enhanced value is unavailable and whenever the baseline is exactly zero,
\* for every value of the other operand.
C6_ImprovementGuards ==
    fnPc = "improved" =>
        ((\/ fnB \in {NA, EMPTY}
          \/ fnE \in {NA, EMPTY}
          \/ (IsNum(fnB) /\ fnB.val = 0)) => fnImp = NA)

C6_Witness ==
    /\ fnPc = "improved"
    /\ fnB = Num(0)
    /\ IsNum(fnE)
    /\ fnE.val > 0
    /\ fnImp = NA

\* The improvement a computation is meant to print, times the baseline.
Better(mode, b, e) == IF mode = "bcThroughput" THEN e - b ELSE b - e


\* C7: for numeric operands with a positive baseline the improvement is
\* (baseline - enhanced) / baseline x 100 for latency and
\* (enhanced - baseline) / baseline x 100 for throughput, to the two
\* decimals printed, and it is positive exactly when the enhanced path is
\* better.
C7_SignedImprovement ==
    (/\ fnPc \in {"improved", "bcLatency", "bcThroughput"}
     /\ IsNum(fnB)
     /\ IsNum(fnE)
     /\ fnB.val > 0) =>
        /\ IsNum(fnImp)
        /\ 2 * Abs(fnImp.val * fnB.val - Better(fnPc, fnB.val, fnE.val) * 10000)
               <= fnB.val
        /\ fnImp.val > 0 <=> Better(fnPc, fnB.val, fnE.val) > 0

\* Whether some recognition pattern of field f matches the file.
Recognized(file, f) ==
    /\ file.exists
    /\ \E n \in 1..Len(PatternsOf(f)) :
           Matching(PatternsOf(f)[n], file.lines) # {}

\* C8: a field of the record extract_metrics returns is numeric only if one
\* of the field's patterns matched the text, and it is exactly N/A when
\* none did.
C8_UnmatchedFieldIsNA ==
    fnPc = "extracted" =>
        \A f \in Fields :
            /\ IsNum(fnRec[f]) => Recognized(fnFile, f)
            /\ ~Recognized(fnFile, f) => fnRec[f] = NA

\* The values of a column that are numbers.
NumericOf(col) == SelectSeq(col, IsNum)

\* C9: each run-level mean is the average over the trials in which the
\* metric is numeric; a trial without a value changes neither the sum nor
\* the count.
C9_MeanOverNumericTrials ==
    pc = "done" =>
        \A r \in Roles : \A f \in Fields :
            LET numeric == NumericOf(Column(comparison, r, f))
            IN  Len(numeric) > 0 =>
                    report.mean[r][f] = ColumnMean(numeric)

\* C10: a metric that is numeric in no trial of the run has N/A as its
\* baseline mean and as its enhanced mean in the summary, not zero.
C10_NoNumericTrialMeansNA ==
    pc = "done" =>
        \A r \in Roles : \A f \in Fields :
            NumericOf(Column(comparison, r, f)) = <<>> =>
                report.mean[r][f] = NA


\* The per-trial improvements of a metric, one per comparison row.
ImprovementColumn(rows, f) == [n \in 1..Len(rows) |-> rows[n].imp[f]]

\* C11: the run-level improvement reported for a metric is the mean of the
\* per-trial improvements of that metric over the trials whose improvement
\* is numeric (to the two decimals printed).
C11_MeanOfTrialImprovements ==
    pc = "done" =>
        \A f \in Fields :
            LET numeric == NumericOf(ImprovementColumn(comparison, f))
            IN  Len(numeric) > 0 =>
                    /\ IsNum(report.improvement[f])
                    /\ Abs(report.improvement[f].val * Len(numeric)
                           - SumSeq(numeric)) <= Len(numeric)

\* C12: when a probe has failed and the script has exited with code 1,
\* neither comparison.csv nor summary_report.txt exists.
C12_NoArtifactsAfterAbort ==
    pc = "aborted" =>
        /\ "comparison" \notin DOMAIN headers
        /\ ~report.written

\* What a run without --debug appends for the trial of row n, computed from
\* the raw logs of that trial.
PlainMetrics(r, n) ==
    extract_metrics(FileAt(Path(r, comparison[n].i, comparison[n].j)))

PlainColumn(r, f) == [n \in 1..Len(comparison) |-> PlainMetrics(r, n)[f]]

\* C13: --debug does not alter the artifacts: the metric and improvement
\* fields of every comparison row and the summary values are those a run
\* without --debug produces from the same subprocess outputs.
C13_DebugLeavesArtifacts ==
    /\ \A n \in 1..Len(comparison) :
           /\ \A r \in Roles : comparison[n][r] = PlainMetrics(r, n)
           /\ \A f \in Fields :
                  comparison[n].imp[f] =
                      Improvement(PlainMetrics("ENI", n)[f],
                                  PlainMetrics("SRD", n)[f])
    /\ pc = "done" =>
           \A r \in Roles : \A f \in Fields :
               report.mean[r][f] = ColumnMean(PlainColumn(r, f))

\* C14: every trial appends exactly one row to each per-role summary CSV,
\* whether the role's run succeeded or failed; at Done each per-role CSV
\* has ITERATIONS x REPEAT data rows.
C14_SummaryRowPerTrial ==
    /\ \A r \in Roles : \A n \in 1..Len(trialExit) :
           Len(summary[r]) >= n
    /\ pc = "done" =>
           \A r \in Roles : Len(summary[r]) = ITERATIONS * REPEAT

\* C15: every data row of a CSV log has exactly the columns its header
\* names, in the header's order.
C15_RowsMatchHeader ==
    /\ \A r \in Roles : \A n \in 1..Len(summary[r]) :
           summary[r][n].cols = headers[SummaryFile(r)]
    /\ \A n \in 1..Len(comparison) :
           comparison[n].cols = headers["comparison"]


CsvRows(f) ==
    CASE f = "comparison" -> comparison
      [] f = "eni_summary" -> summary["ENI"]
      [] f = "srd_summary" -> summary["SRD"]

IsPrefix(a, b) ==
    /\ Len(a) <= Len(b)
    /\ \A k \in 1..Len(a) : a[k] = b[k]

\* C16: the CSV logs are append-only: a CSV holds rows only after its
\* header has been written, the header never changes afterwards, and every
\* step leaves the rows written so far in place as a prefix of the rows.
C16_AppendOnlyLogs ==
    /\ [](\A f \in CsvFiles : CsvRows(f) # <<>> => f \in DOMAIN headers)
    /\ [][\A f \in CsvFiles :
              /\ f \in DOMAIN headers =>
                     (f \in DOMAIN headers' /\ headers'[f] = headers[f])
              /\ IsPrefix(CsvRows(f), CsvRows(f)')]_vars

C16_Witness ==
    /\ pc = "done"
    /\ DOMAIN headers = CsvFiles
    /\ Len(comparison) = 2
    /\ Len(summary["ENI"]) = 2
    /\ Len(summary["SRD"]) = 1

C18_HungRunTimesOut ==
    pc \notin Terminal => ENABLED Next

\* The markers of the five provenance lines, in order.
HeaderKinds ==
    << "# 5-Tuple: ", "# Test type: ", "# Iteration: ", "# Timestamp: ",
       "#-----" >>

HasProvenanceHeader(r, lines) ==
    /\ Len(lines) >= 5
    /\ \A k \in 1..5 : lines[k].k = HeaderKinds[k]
    /\ \E o \in RunOutcomes(r) : SubSeq(lines, 6, Len(lines)) = o.lines

\* C19: after every run invocation, successful or failed, the raw log of
\* the run is the five provenance lines, in order, followed by the captured
\* output.
C19_RawLogHasHeader ==
    \A r \in Roles :
        job[r].st = "done" =>
            HasProvenanceHeader(r, files[Path(r, job[r].i, job[r].j)])

\* C20: for every metric the value extract_metrics returns is the one the
\* earliest matching pattern of the metric's list extracts; a later pattern
\* supplies the value when no earlier one matches.
C20_FirstMatchingPatternWins ==
    (fnPc = "extracted" /\ fnFile.exists) =>
        \A f \in Fields : \A n \in 1..Len(PatternsOf(f)) :
            (/\ Matching(PatternsOf(f)[n], fnFile.lines) # {}
             /\ \A m \in 1..(n - 1) :
                    Matching(PatternsOf(f)[m], fnFile.lines) = {}) =>
                fnRec[f] = MatchedValue(PatternsOf(f)[n], fnFile.lines)


\* A background job that has not terminated.
Active(r) == job[r].st \in {"running", "post", "hung"}

\* The executions the current trial has started so far.
StartedInTrial ==
    CASE pc = "launchSRD" -> 1
      [] pc \in {"waitENI", "waitSRD", "extract", "improve", "append"} -> 2
      [] OTHER -> 0

\* C21: each trial starts exactly two executions and trials never overlap:
\* every execution that has not terminated belongs to the current
\* (iteration, repeat) pair, and a trial starts only when no execution is
\* left and every stage of the trials before it has finished.
C21_TrialsNeverOverlap ==
    /\ launched = 2 * Len(comparison) + StartedInTrial
    /\ \A r \in Roles :
           Active(r) =>
               /\ job[r].i = i
               /\ job[r].j = j
               /\ pc \in {"launchSRD", "waitENI", "waitSRD"}
    /\ pc = "launchENI" =>
           /\ \A r \in Roles : ~Active(r)
           /\ Len(comparison) = i * REPEAT + j

C21_Witness ==
    /\ job["ENI"].st = "running"
    /\ job["SRD"].st = "running"
    /\ Len(comparison) = 1
    /\ launched = 4

\* C22: no CSV log is written while an execution of the current trial has
\* not terminated: as long as a job is left, the per-role summaries and
\* comparison.csv hold no row of that job's trial.
C22_WritesAfterJoin ==
    \A q \in Roles :
        Active(q) =>
            /\ \A r \in Roles : \A n \in 1..Len(summary[r]) :
                   <<summary[r][n].i, summary[r][n].j>> # <<job[q].i, job[q].j>>
            /\ \A n \in 1..Len(comparison) :
                   <<comparison[n].i, comparison[n].j>> # <<job[q].i, job[q].j>>

\* C23: for every trial and role whose run succeeded, the avg, p50, p99 and
\* max of the role's summary row are those of the role in the trial's
\* comparison row.
C23_OneRecordPerRun ==
    \A n \in 1..Len(comparison) : \A r \in Roles :
        trialExit[n][r] = 0 =>
            \E k \in 1..Len(summary[r]) :
                /\ summary[r][k].i = comparison[n].i
                /\ summary[r][k].j = comparison[n].j
                /\ \A f \in Fields : summary[r][k].m[f] = comparison[n][r][f]

\* (iteration, repeat) pairs in lexicographic order.
Before(a, b) == a.i < b.i \/ (a.i = b.i /\ a.j < b.j)

Increasing(rows) ==
    \A m, n \in 1..Len(rows) : m < n => Before(rows[m], rows[n])

\* C25: the rows of comparison.csv and of each per-role summary are
\* strictly increasing in (iteration, repeat).
C25_RowsMonotonic ==
    /\ Increasing(comparison)
    /\ \A r \in Roles : Increasing(summary[r])

C25_Witness ==
    /\ Len(comparison) = 2
    /\ Len(summary["ENI"]) = 2
    /\ Len(summary["SRD"]) = 2
    /\ comparison[2].i = 1

\* C26: the two executions of a trial never share a local port or a log
\* path: no baseline port of the run is an enhanced port of the run, the
\* path is distinct for every (role, iteration, repeat), and every
\* execution started has a raw log of its own.
C26_DistinctPortsAndPaths ==
    /\ \A a, b \in 0..(ITERATIONS - 1) :
           LocalPort("ENI", a) # LocalPort("SRD", b)
    /\ \A r, q \in Roles : \A a, c \in 0..(ITERATIONS - 1) :
           \A b, d \in 0..(REPEAT - 1) :
               Path(r, a, b) = Path(q, c, d) => (r = q /\ a = c /\ b = d)
    /\ Cardinality(DOMAIN files) = launched
    /\ \A m \in 1..Len(summary["ENI"]) : \A n \in 1..Len(summary["SRD"]) :
           summary["ENI"][m].port # summary["SRD"][n].port

C26_Witness ==
    /\ ITERATIONS = 2
    /\ i = 1
    /\ job["ENI"].st = "running"
    /\ job["SRD"].st = "running"
    /\ Len(summary["ENI"]) = 1
    /\ Len(summary["SRD"]) = 1

\* C27: the ping of check_sockperf_server runs only after the probe has
\* failed and never changes the verdict: a failed probe aborts whether the
\* ping succeeds or fails, a successful probe continues without a ping.
C27_PingIsAdvisory ==
    \A r \in Roles :
        /\ ping[r] # "none" => probe[r] = "fail"
        /\ probe[r] = "fail" => (ping[r] \in {"ok", "fail"} /\ pc = "aborted")
        /\ probe[r] = "ok" => ping[r] = "none"
        /\ (probe["ENI"] = "ok" /\ probe["SRD"] = "ok") => pc # "aborted"

C27_Witness ==
    /\ probe["SRD"] = "fail"
    /\ ping["SRD"] = "ok"
    /\ pc = "aborted"
    /\ exitCode = 1

\* C28: exactly one cooldown lies between two consecutive trials, the
\* inter-repeat cooldown (10) inside an iteration and the inter-iteration
\* cooldown (30) when the next trial begins an iteration; none follows the
\* last trial.
C28_OneCooldownBetweenTrials ==
    /\ \A n \in 1..Len(cooldowns) :
           cooldowns[n] = IF n % REPEAT = 0 THEN 30 ELSE 10
    /\ pc \in {"launchENI", "launchSRD", "waitENI", "waitSRD", "extract",
               "improve", "append"} =>
           Len(cooldowns) = i * REPEAT + j
    /\ pc \in {"summarize", "done"} =>
           Len(cooldowns) = ITERATIONS * REPEAT - 1

C28_Witness ==
    /\ pc = "done"
    /\ cooldowns = <<30>>


\* C29: provided every subprocess terminates, every run reaches a terminal
\* state: Aborted exactly when a probe failed, otherwise Done, after the
\* loop has executed each (iteration, repeat) pair exactly once and the
\* summary report has been written; a terminal state is never left.
C29_EveryRunTerminates ==
    /\ <>(pc \in Terminal \/ \E r \in Roles : job[r].st = "hung")
    /\ [](pc = "aborted" <=> \E r \in Roles : probe[r] = "fail")
    /\ [](pc = "done" =>
             /\ \A r \in Roles : probe[r] = "ok"
             /\ \A t \in AllTrials :
                    Cardinality({n \in 1..Len(comparison) :
                        <<comparison[n].i, comparison[n].j>> = t}) = 1
             /\ Len(comparison) = ITERATIONS * REPEAT
             /\ launched = 2 * Len(comparison)
             /\ report.written)
    /\ [](~report.written => pc # "done")
    /\ [][(pc \in Terminal) => pc' = pc]_vars

C29_Witness ==
    /\ pc = "done"
    /\ report.written
    /\ ITERATIONS = 1
    /\ REPEAT = 2
    /\ Len(comparison) = 2
    /\ \A r \in Roles : job[r].st = "done"


\* C30: every metric generate_summary_report reads back from metrics.txt by
\* key resolves to exactly one value, the value process_results stored
\* under that key.
C30_LookupResolvesToOwnKey ==
    fnPc = "reported" =>
        \A name \in MetricNames : fnRec2[name] = <<fnRec[name]>>


\* The first row a per-role summary holds for the trial (a, b).
FirstRowOf(r, a, b) ==
    LET ks == {k \in 1..Len(summary[r]) :
                  summary[r][k].i = a /\ summary[r][k].j = b}
    IN  summary[r][CHOOSE k \in ks : \A l \in ks : k <= l]

\* C24: each trial of the TCP script executes the benchmark tool exactly
\* once per role, and the metrics of the trial's comparison row are those
\* of the output of these executions: two executions and one per-role row
\* per trial, and every comparison value is the value the background
\* execution of its role recorded.
C24_TcpOneExecutionPerRole ==
    /\ launched <= 2 * (i * REPEAT + j + 1)
    /\ pc = "done" =>
           /\ launched = 2 * ITERATIONS * REPEAT
           /\ \A r \in Roles : Len(summary[r]) = ITERATIONS * REPEAT
    /\ \A n \in 1..Len(comparison) : \A r \in Roles : \A f \in TcpFields :
           comparison[n][r][f].val =
               FirstRowOf(r, comparison[n].i, comparison[n].j).m[f].val

=============================================================================
